---- MODULE Spec2Model ----
(***************************************************************************)
(* Model of melctl_client_plugins/s8s/s8s.py: the S8S profile store        *)
(* (set-config, get-config, del-config) and the scale command              *)
(* (Scale.type_scalespecs, Scale.reprocess_args, Scale.target).            *)
(*                                                                         *)
(* Python values are modelled as follows:                                  *)
(*   str            a TLA+ string, or a sequence of one-character strings  *)
(*                  where the characters matter (scale-spec tokens)        *)
(*   None           the value None (no string of StrVals equals it)        *)
(*   dict           a function whose DOMAIN is the set of keys             *)
(*   list           a sequence                                             *)
(* The configuration file holds json.dump of a dict of str -> dict of      *)
(* str -> str; json.load returns an equal dict, so the file content is     *)
(* kept as that dict.  open(cfgfile, 'w') truncates the file before        *)
(* json.dump writes it; a truncated file has no JSON value in it.          *)
(***************************************************************************)
EXTENDS Integers, Sequences, FiniteSets, TLC

VARIABLES
    cfgfile,      \* the file s8s_config.json: [exists, valid, config]
    hist,         \* the last two profile-store commands run, newest last
    procs,        \* concurrent set-config/del-config invocations
    cli,          \* the scale command line as argparse parsed it
    args,         \* Scale.target: args after reprocess_args
    pc,           \* Scale.target: position of the invocation
    idx,          \* Scale.target: index of the next node_specs to request
    scale_specs,  \* Scale.target: the compiled node specifications
    scale_stats,  \* Scale.target: the responses collected so far
    sent,         \* the POST requests the remote API has been sent
    stderr,       \* what the scale command printed on stderr
    result,       \* what Scale.target returned, or NoResult
    parsed        \* the last token handed to Scale.type_scalespecs

vars == <<cfgfile, hist, procs, cli, args, pc, idx, scale_specs, scale_stats,
          sent, stderr, result, parsed>>

scaleVars == <<cli, args, pc, idx, scale_specs, scale_stats, sent, stderr, result>>

------------------------------------------------------------------------------
(* Bounds of the model                                                     *)

NumNames == 2
NumStr == 2
NumIdent == 3

NamePool == <<"a", "b", "c", "d">>
StrPool == <<"", "x", "y", "z">>

None == "None"

Names == {NamePool[i] : i \in 1..NumNames}
StrVals == {StrPool[i] : i \in 1..NumStr}

Fields == {"region", "pool", "master", "token"}

\* The values set-config is run with: --region, --pool, --master, --token are
\* required flags of type str, so each is any string, the empty one included.
IdentPool ==
    <<[region |-> "r1", pool |-> "p1", master |-> "m1", token |-> "t1"],
      [region |-> "",   pool |-> "p2", master |-> "m2", token |-> "t2"],
      [region |-> "r1", pool |-> "p1", master |-> "m3", token |-> ""],
      [region |-> "x",  pool |-> "x",  master |-> "x",  token |-> "x"]>>

Identities == {IdentPool[i] : i \in 1..NumIdent}

------------------------------------------------------------------------------
(* Python dict operations                                                  *)

EmptyDict == [k \in {} |-> None]

DictSet(d, k, v) == [x \in (DOMAIN d) \cup {k} |-> IF x = k THEN v ELSE d[x]]

DictDel(d, k) == [x \in (DOMAIN d) \ {k} |-> d[x]]

------------------------------------------------------------------------------
(* The configuration file                                                  *)

NoFile == [exists |-> FALSE, valid |-> FALSE, config |-> EmptyDict]

FileOf(config) == [exists |-> TRUE, valid |-> TRUE, config |-> config]

Truncated == [exists |-> TRUE, valid |-> FALSE, config |-> EmptyDict]

------------------------------------------------------------------------------
(* set-config                                                              *)

SetConfig_load_fresh(file) == EmptyDict

SetConfig_load(file) == IF file.exists THEN file.config ELSE EmptyDict

SetConfig_entry(a) ==
    [region |-> a.region, pool |-> a.pool, master |-> a.master, token |-> a.token]

SetConfig_update(config, a) == DictSet(config, a.name, SetConfig_entry(a))

SetConfig_target(file, a) ==
    [file |-> FileOf(SetConfig_update(SetConfig_load(file), a)),
     out  |-> [file |-> "s8s_config.json", name |-> a.name]]

------------------------------------------------------------------------------
(* get-config                                                              *)

GetConfig_select(config, a) ==
    IF a.name # None THEN [k \in {a.name} |-> config[k]] ELSE config

GetConfig_cleanup_always(config, a) ==
    [k \in DOMAIN config |-> [f \in Fields \ {"token"} |-> config[k][f]]]

GetConfig_cleanup(config, a) ==
    IF a.token = FALSE
    THEN [k \in DOMAIN config |-> [f \in Fields \ {"token"} |-> config[k][f]]]
    ELSE config

GetConfig_rows(config) ==
    {[f \in {"name"} \cup DOMAIN config[k] |->
        IF f = "name" THEN k ELSE config[k][f]] : k \in DOMAIN config}

GetConfig_target(file, a) ==
    IF ~file.exists
    THEN [exit |-> 0, rows |-> {}]
    ELSE IF a.name # None /\ a.name \notin DOMAIN file.config
    THEN [exit |-> 1, rows |-> {}]
    ELSE [exit |-> 0,
          rows |-> GetConfig_rows(
                     GetConfig_cleanup(GetConfig_select(file.config, a), a))]

------------------------------------------------------------------------------
(* del-config                                                              *)

DelConfig_update_all(config, a) == EmptyDict

DelConfig_update(config, a) ==
    IF a.name \in DOMAIN config THEN DictDel(config, a.name) ELSE config

DelConfig_target(file, a) ==
    IF ~file.exists
    THEN [file |-> file, out |-> EmptyDict]
    ELSE [file |-> FileOf(DelConfig_update(file.config, a)),
          out  |-> [deleted |-> a.name]]

------------------------------------------------------------------------------
(* The profile-store commands, each one CLI invocation run to completion    *)

Push(h, e) == IF Len(h) < 2 THEN Append(h, e) ELSE <<h[2], e>>

\* The session log: command, arguments, the file before it ran, its outcome.
Logged(cmd, name, ident, token, exit, rows) ==
    hist' = Push(hist, [cmd |-> cmd, name |-> name, ident |-> ident,
                        token |-> token, before |-> cfgfile,
                        exit |-> exit, rows |-> rows])

SetConfig(name, ident) ==
    LET a == [name |-> name, region |-> ident.region, pool |-> ident.pool,
              master |-> ident.master, token |-> ident.token]
    IN  /\ pc = "idle"
        /\ cfgfile.exists => cfgfile.valid
        /\ cfgfile' = SetConfig_target(cfgfile, a).file
        /\ UNCHANGED <<procs, scaleVars, parsed>>

GetConfig(name, token) ==
    LET r == GetConfig_target(cfgfile, [name |-> name, token |-> token])
    IN  /\ pc = "idle"
        /\ cfgfile.exists => cfgfile.valid
        /\ Logged("get", name, None, token, r.exit, r.rows)
        /\ UNCHANGED <<cfgfile, procs, scaleVars, parsed>>

DelConfig(name) ==
    /\ pc = "idle"
    /\ cfgfile.exists => cfgfile.valid
    /\ cfgfile' = DelConfig_target(cfgfile, [name |-> name]).file
    /\ UNCHANGED <<procs, scaleVars, parsed>>

------------------------------------------------------------------------------
(* Scale.type_scalespecs and int()                                         *)

DigitChars == <<"0", "1", "2", "3", "4", "5", "6", "7", "8", "9">>

IsDigit(c) == \E i \in 1..Len(DigitChars) : DigitChars[i] = c

DigitVal(c) == (CHOOSE i \in 1..Len(DigitChars) : DigitChars[i] = c) - 1

\* [0-9]+ matching the whole of s
IsDigits(s) == Len(s) >= 1 /\ \A i \in 1..Len(s) : IsDigit(s[i])

\* ^(?P<nodes>[0-9]+):(?P<time>[0-9]+) matching s up to its end
ColonAt(s) ==
    {k \in 1..Len(s) : /\ s[k] = ":"
                        /\ IsDigits(SubSeq(s, 1, k - 1))
                        /\ IsDigits(SubSeq(s, k + 1, Len(s)))}

\* $ matches at the end of the string and just before a newline that ends it
DollarEnds_strict(s) == {Len(s)}

DollarEnds(s) ==
    {Len(s)} \cup (IF Len(s) >= 1 /\ s[Len(s)] = "\n" THEN {Len(s) - 1} ELSE {})

regex_scalespecs_match(arg) ==
    LET ends == {e \in DollarEnds(arg) : ColonAt(SubSeq(arg, 1, e)) # {}}
    IN  IF ends = {}
        THEN [matched |-> FALSE, nodes |-> <<>>, time |-> <<>>]
        ELSE LET e == CHOOSE x \in ends : TRUE
                 m == SubSeq(arg, 1, e)
                 k == CHOOSE x \in ColonAt(m) : TRUE
             IN  [matched |-> TRUE, nodes |-> SubSeq(m, 1, k - 1),
                  time |-> SubSeq(m, k + 1, Len(m))]

\* match(arg).groupdict(), or TypeError when match returns None
type_scalespecs(arg) ==
    LET m == regex_scalespecs_match(arg)
    IN  IF m.matched
        THEN [error |-> "", nodes |-> m.nodes, time |-> m.time]
        ELSE [error |-> "TypeError", nodes |-> <<>>, time |-> <<>>]

RECURSIVE int(_)
int(s) == IF Len(s) = 0 THEN 0
          ELSE 10 * int(SubSeq(s, 1, Len(s) - 1)) + DigitVal(s[Len(s)])

------------------------------------------------------------------------------
(* Scale: the command line                                                 *)

partitions_swapped == <<"gpu", "cpu", "mem", "fpga">>

partitions == <<"cpu", "gpu", "mem", "fpga">>

\* argparse, action='append', dest='specs_<p>': the values of the --<p>
\* occurrences in command-line order, each the result of type_scalespecs
specs_of(a, p) ==
    LET Is(f) == f.part = p
        Val(f) == [nodes |-> f.nodes, time |-> f.time]
        occ == SelectSeq(a.flags, Is)
    IN  [i \in 1..Len(occ) |-> Val(occ[i])]

------------------------------------------------------------------------------
(* Scale.end_with_usage, Scale.reprocess_args                              *)

\* a run of Scale.target so far: what it printed, whether sys.exit was called
Run(a) == [args |-> a, stderr |-> <<>>, exited |-> FALSE]

end_with_usage_noexit(r) == [r EXCEPT !.stderr = Append(@, "usage")]

end_with_usage(r) ==
    [r EXCEPT !.stderr = Append(@, "usage"), !.exited = TRUE]

\* filter(None, (args.region, args.pool, args.master, args.token))
manual_args_notnone(a) ==
    {f \in Fields : a[f] # None}

manual_args(a) ==
    {f \in Fields : a[f] # None /\ a[f] # ""}

\* json.load(fd)[args.name] and the four keys of it: raises when the file
\* is missing or not JSON, or when the name is not a key
cfg_loadable(a, file) ==
    file.exists /\ file.valid /\ a.name \in DOMAIN file.config

cfg_loaded(a, file) ==
    LET cfg == file.config[a.name]
    IN  [a EXCEPT !.region = cfg.region, !.pool = cfg.pool,
                  !.master = cfg.master, !.token = cfg.token]

reprocess_args(a, file) ==
    LET r0 == Run(a)
        r1 == IF a.name # None /\ Cardinality(manual_args(a)) > 0
              THEN end_with_usage(r0) ELSE r0
    IN  IF r1.exited THEN r1
        ELSE IF a.name # None
        THEN IF cfg_loadable(a, file)
             THEN [r1 EXCEPT !.args = cfg_loaded(a, file)]
             ELSE end_with_usage(r1)
        ELSE IF Cardinality(manual_args(a)) < 4
        THEN end_with_usage(r1)
        ELSE r1

------------------------------------------------------------------------------
(* Scale.target: the node specifications                                   *)

node_specs_of(a, part, part_specs) ==
    [region   |-> a.region,
     pool     |-> a.pool,
     features |-> [k \in {part} |-> TRUE],
     seconds  |-> int(part_specs.time),
     master   |-> a.master,
     token    |-> a.token]

\* for _ in range(int(part_specs['nodes'])): scale_specs.append({...})
range_one_more(part_specs) == int(part_specs.nodes) + 1

range_nodes(part_specs) == int(part_specs.nodes)

expand_entry(a, part, part_specs) ==
    [i \in 1..range_nodes(part_specs) |-> node_specs_of(a, part, part_specs)]

RECURSIVE expand_part(_, _, _)
expand_part(a, part, specs) ==
    IF Len(specs) = 0 THEN <<>>
    ELSE expand_entry(a, part, Head(specs)) \o expand_part(a, part, Tail(specs))

RECURSIVE expand_parts(_, _)
expand_parts(a, parts) ==
    IF Len(parts) = 0 THEN <<>>
    ELSE expand_part(a, Head(parts), specs_of(a, Head(parts)))
           \o expand_parts(a, Tail(parts))

compile_specs(a) == expand_parts(a, partitions)

\* if len(scale_specs) < 1: print(...); sys.exit(1)
ensure_nodes(r, specs) ==
    IF Len(specs) < 1
    THEN [r EXCEPT !.stderr = Append(@, "validation"), !.exited = TRUE]
    ELSE r

------------------------------------------------------------------------------
(* Scale.target: the requests                                              *)

NoResult == <<"no result">>

post_dry_run_in_body(a, node_specs) ==
    [url    |-> [region |-> a.region, pool |-> a.pool],
     json   |-> [f \in DOMAIN node_specs \cup {"dry_run"} |->
                   IF f = "dry_run" THEN a.dry_run ELSE node_specs[f]],
     params |-> [dry_run |-> FALSE]]

\* self.session.post(url, json=node_specs, params={'dry_run': args.dry_run})
post(a, node_specs) ==
    [url    |-> [region |-> a.region, pool |-> a.pool],
     json   |-> node_specs,
     params |-> [dry_run |-> a.dry_run]]

\* req.raise_for_status() raises on a 4xx or 5xx response
raise_for_status_never(status) == FALSE

raise_for_status(status) == status = "http_error"

\* scale_stats.append(req.json())
stats_prepend(stats, body) == <<body>> \o stats

stats_append(stats, body) == Append(stats, body)

\* The remote API answers the k-th request it receives with a body naming it.
response_body(status, k) == [status |-> status, request |-> k]

ScaleStart(c) ==
    LET r  == reprocess_args(c, cfgfile)
        sp == IF r.exited THEN <<>> ELSE compile_specs(r.args)
        r2 == IF r.exited THEN r ELSE ensure_nodes(r, sp)
    IN  /\ pc = "idle"
        /\ cli' = c
        /\ args' = r2.args
        /\ stderr' = r2.stderr
        /\ scale_specs' = sp
        /\ pc' = IF r2.exited THEN "exit1"
                 ELSE IF Len(sp) = 0 THEN "returned" ELSE "posting"
        /\ result' = IF ~r2.exited /\ Len(sp) = 0 THEN <<>> ELSE result
        /\ UNCHANGED <<cfgfile, hist, procs, idx, scale_stats, sent, parsed>>

\* One iteration of "for node_specs in scale_specs"; status is what the
\* transport and the remote API make of the request.
ScalePost(status) ==
    LET req  == post(args, scale_specs[idx])
        body == response_body(status, Len(sent) + 1)
        last == idx = Len(scale_specs)
    IN  /\ pc = "posting"
        /\ sent' = Append(sent, [req |-> req, status |-> status])
        /\ IF status = "transport_error" \/ raise_for_status(status)
           THEN /\ pc' = "raised"
                /\ UNCHANGED <<idx, scale_stats, result>>
           ELSE /\ scale_stats' = stats_append(scale_stats, body)
                /\ idx' = idx + 1
                /\ pc' = IF last THEN "returned" ELSE "posting"
                /\ result' = IF last THEN scale_stats' ELSE result
        /\ UNCHANGED <<cfgfile, hist, procs, cli, args, scale_specs, stderr,
                       parsed>>

------------------------------------------------------------------------------
(* Scale.type_scalespecs applied by argparse to one --<p> value             *)

MaxTokLen == 4

TokChars == {"0", "1", "2", ":", "x", "\n"}

Tokens == UNION {[1..n -> TokChars] : n \in 0..MaxTokLen}

ParseArgs ==
    [name |-> None, region |-> "r", pool |-> "p", master |-> "m",
     token |-> "t", dry_run |-> FALSE, flags |-> <<>>]

NotParsed ==
    [tok |-> <<>>, error |-> "not parsed", nodes |-> <<>>, time |-> <<>>,
     requests |-> <<>>]

\* argparse calls type_scalespecs(tok); Scale.target then expands the entry
ParseToken(tok, part) ==
    LET e == type_scalespecs(tok)
    IN  /\ parsed = NotParsed
        /\ parsed' = [tok |-> tok, error |-> e.error, nodes |-> e.nodes,
                      time |-> e.time,
                      requests |-> IF e.error # "" THEN <<>>
                                   ELSE expand_entry(ParseArgs, part, e)]
        /\ UNCHANGED <<cfgfile, hist, procs, scaleVars>>

------------------------------------------------------------------------------
(* Concurrent set-config and del-config invocations, one per process.      *)
(* Each reads the file (exists, open 'r', json.load), changes its own copy *)
(* of the dict, then opens the file for writing, which truncates it, and   *)
(* dumps the dict.  Nothing locks the file between these steps.            *)

Procs == {1, 2}

Idle == [pc |-> "idle", cmd |-> "none", name |-> None, config |-> EmptyDict,
         after |-> {}]

Finished(q) == procs[q].pc \in {"done", "crashed"}

\* SetConfig.target lines 69-80, DelConfig.target lines 138-143
ProcRead(p, cmd, name, ident) ==
    LET a == [name |-> name, region |-> ident.region, pool |-> ident.pool,
              master |-> ident.master, token |-> ident.token]
        me == [pc |-> "loaded", cmd |-> cmd, name |-> name,
               config |-> EmptyDict,
               after |-> {q \in Procs : Finished(q)}]
    IN  /\ procs[p].pc = "idle"
        /\ procs' = [procs EXCEPT ![p] =
             IF cfgfile.exists /\ ~cfgfile.valid
             THEN [me EXCEPT !.pc = "crashed"]
             ELSE IF cmd = "set"
             THEN [me EXCEPT !.config =
                        SetConfig_update(SetConfig_load(cfgfile), a)]
             ELSE IF ~cfgfile.exists
             THEN [me EXCEPT !.pc = "done"]
             ELSE [me EXCEPT !.config = DelConfig_update(cfgfile.config, a)]]
        /\ UNCHANGED <<cfgfile, hist, scaleVars, parsed>>

\* open(cfgfile, 'w')
ProcOpen(p) ==
    /\ procs[p].pc = "loaded"
    /\ cfgfile' = Truncated
    /\ procs' = [procs EXCEPT ![p].pc = "opened"]
    /\ UNCHANGED <<hist, scaleVars, parsed>>

\* json.dump(config, fd, indent=2) and the return
ProcDump(p) ==
    /\ procs[p].pc = "opened"
    /\ cfgfile' = FileOf(procs[p].config)
    /\ procs' = [procs EXCEPT ![p].pc = "done"]
    /\ UNCHANGED <<hist, scaleVars, parsed>>

------------------------------------------------------------------------------
(* Specifications                                                          *)

Init ==
    /\ cfgfile = NoFile
    /\ hist = <<>>
    /\ procs = [p \in Procs |-> Idle]
    /\ cli = None
    /\ args = None
    /\ pc = "idle"
    /\ idx = 1
    /\ scale_specs = <<>>
    /\ scale_stats = <<>>
    /\ sent = <<>>
    /\ stderr = <<>>
    /\ result = NoResult
    /\ parsed = NotParsed

\* The profile store used from one shell, one command after the other.
NextStore ==
    \/ \E n \in Names, i \in Identities :
         SetConfig(n, i) /\ Logged("set", n, i, FALSE, 0, {})
    \/ \E n \in Names \cup {None}, t \in BOOLEAN : GetConfig(n, t)
    \/ \E n \in Names :
         DelConfig(n) /\ Logged("del", n, None, FALSE, 0, {})

SpecStore == Init /\ [][NextStore]_vars

\* Two invocations of set-config or del-config running at the same time.
ConcIdent(p) == IdentPool[((p - 1) % NumIdent) + 1]

NextConc ==
    \/ \E p \in Procs, n \in Names :
         ProcRead(p, "set", n, ConcIdent(p))
    \/ \E p \in Procs, n \in Names :
         ProcRead(p, "del", n, ConcIdent(p))
    \/ \E p \in Procs : ProcOpen(p)
    \/ \E p \in Procs : ProcDump(p)

SpecConc == Init /\ [][NextConc]_vars

\* Every token of at most MaxTokLen characters handed to type_scalespecs.
NextParse == \E tok \in Tokens, part \in {"cpu", "fpga"} : ParseToken(tok, part)

SpecParse == Init /\ [][NextParse]_vars

\* The scale command: every command line of at most MaxFlags partition
\* flags, with a stored profile or the four explicit flags, or neither, or both.
MaxFlags == 2

ScaleEntries ==
    {[nodes |-> <<"1">>, time |-> <<"1">>],
     [nodes |-> <<"0", "2">>, time |-> <<"1", "0">>],
     [nodes |-> <<"0">>, time |-> <<"3">>]}

PartitionSet == {partitions[i] : i \in 1..Len(partitions)}

ScaleFlags ==
    {[part |-> p, nodes |-> e.nodes, time |-> e.time] :
        p \in PartitionSet, e \in ScaleEntries}

FlagSeqs == UNION {[1..n -> ScaleFlags] : n \in 0..MaxFlags}

Cli(name, region, pool, master, token, dry_run, flags) ==
    [name |-> name, region |-> region, pool |-> pool, master |-> master,
     token |-> token, dry_run |-> dry_run, flags |-> flags]

ScaleClis ==
    {Cli(n, v, v, v, v, d, fs) :
        n \in {None, NamePool[1]}, v \in {None, "x"}, d \in BOOLEAN,
        fs \in FlagSeqs}

Statuses == {"ok", "http_error", "transport_error"}

NextScale ==
    \/ SetConfig(NamePool[1], IdentPool[1]) /\ UNCHANGED hist
    \/ \E c \in ScaleClis : ScaleStart(c)
    \/ \E st \in Statuses : ScalePost(st)

SpecScale == Init /\ [][NextScale]_vars

\* Identity resolution: scale --cpu 1:1 with every combination of name and
\* explicit flags, each flag absent, empty or not, against every store
\* set-config and del-config leave for one profile name.
ResolveClis ==
    {Cli(n, r, p, m, t, FALSE, fs) :
        n \in Names \cup {None},
        r \in StrVals \cup {None}, p \in StrVals \cup {None},
        m \in StrVals \cup {None}, t \in StrVals \cup {None},
        fs \in {<<[part |-> "cpu", nodes |-> <<"1">>, time |-> <<"1">>]>>}}

NextResolve ==
    \/ \E i \in Identities : SetConfig(NamePool[1], i) /\ UNCHANGED hist
    \/ DelConfig(NamePool[1]) /\ UNCHANGED hist
    \/ \E c \in ResolveClis : ScaleStart(c)
    \/ \E st \in Statuses : ScalePost(st)

SpecResolve == Init /\ [][NextResolve]_vars

------------------------------------------------------------------------------
(* Properties of Scale.target                                              *)

Started == pc # "idle"

\* reprocess_args returned and at least one node was requested
Compiled == pc \in {"posting", "returned", "raised"}

\* The identity the command line names: the stored profile's, or the flags'.
ResolvedIdentity ==
    IF cli.name # None
    THEN cfgfile.config[cli.name]
    ELSE [f \in Fields |-> cli[f]]

RECURSIVE SumNodes(_)
SumNodes(flags) ==
    IF Len(flags) = 0 THEN 0 ELSE int(Head(flags).nodes) + SumNodes(Tail(flags))

FlagsFor(p, t) ==
    LET Is(f) == f.part = p /\ int(f.time) = t IN SelectSeq(cli.flags, Is)

RequestsFor(seq, p, t) ==
    {i \in 1..Len(seq) : seq[i].features = [k \in {p} |-> TRUE]
                         /\ seq[i].seconds = t}

FlagTimes == {int(cli.flags[k].time) : k \in 1..Len(cli.flags)}

\* C1: every parsed entry (p, n, t) contributes exactly n node requests with
\* features {p: true} and seconds t, each stamped with the resolved identity;
\* the number of compiled requests is the sum of the node counts.
C1_Expansion ==
    Compiled =>
      /\ Len(scale_specs) = SumNodes(cli.flags)
      /\ \A p \in {"cpu", "gpu", "mem", "fpga"}, t \in FlagTimes :
           Cardinality(RequestsFor(scale_specs, p, t)) = SumNodes(FlagsFor(p, t))
      /\ \A i \in 1..Len(scale_specs) :
           /\ Cardinality(DOMAIN scale_specs[i].features) = 1
           /\ DOMAIN scale_specs[i].features \subseteq {"cpu", "gpu", "mem", "fpga"}
           /\ scale_specs[i].seconds \in FlagTimes
           /\ \A f \in Fields : scale_specs[i][f] = ResolvedIdentity[f]

C1_Witness ==
    /\ pc = "posting"
    /\ cli.name # None
    /\ Len(cli.flags) = 2
    /\ cli.flags[1].nodes = <<"0", "2">>
    /\ cli.flags[2].nodes = <<"1">>
    /\ Len(scale_specs) = 3

PartRank(p) ==
    CASE p = "cpu" -> 1 [] p = "gpu" -> 2 [] p = "mem" -> 3 [] p = "fpga" -> 4

PartOf(s) == CHOOSE k \in DOMAIN s.req.json.features : TRUE

\* the durations of the requests sent for partition p, in the order sent
SentSeconds(p) ==
    LET Is(s) == PartOf(s) = p
        sel == SelectSeq(sent, Is)
    IN  [i \in 1..Len(sel) |-> sel[i].req.json.seconds]

RECURSIVE Durations(_, _)
Durations(flags, p) ==
    IF Len(flags) = 0 THEN <<>>
    ELSE (IF Head(flags).part = p
          THEN [i \in 1..int(Head(flags).nodes) |-> int(Head(flags).time)]
          ELSE <<>>) \o Durations(Tail(flags), p)

IsPrefix(a, b) == Len(a) <= Len(b) /\ \A i \in 1..Len(a) : a[i] = b[i]

\* C2: requests are POSTed grouped by partition in the order cpu, gpu, mem,
\* fpga whatever the order of the flags on the command line, within a
\* partition in the order of its flag occurrences, and no request of a later
\* partition is sent before every request of an earlier one.
C2_Ordering ==
    Compiled =>
      /\ \A i, j \in 1..Len(sent) :
           i < j => PartRank(PartOf(sent[i])) <= PartRank(PartOf(sent[j]))
      /\ \A p \in {"cpu", "gpu", "mem", "fpga"} :
           IsPrefix(SentSeconds(p), Durations(cli.flags, p))
      /\ \A j \in 1..Len(sent), p \in {"cpu", "gpu", "mem", "fpga"} :
           PartRank(p) < PartRank(PartOf(sent[j]))
             => SentSeconds(p) = Durations(cli.flags, p)

C2_Witness ==
    /\ Compiled
    /\ Len(cli.flags) = 2
    /\ cli.flags[1].part = "gpu"
    /\ cli.flags[2].part = "cpu"
    /\ Len(sent) = 2
    /\ PartOf(sent[1]) = "cpu"
    /\ PartOf(sent[2]) = "gpu"

\* C3: a request that fails is the last one sent: nothing is sent after it,
\* the failure is raised, no result list is returned, and the requests before
\* it were sent and answered and stay so.
C3_AbortOnFirstFailure ==
    \A n \in 1..Len(sent) :
      sent[n].status # "ok" =>
        /\ n = Len(sent)
        /\ pc = "raised"
        /\ result = NoResult
        /\ Len(scale_stats) = n - 1
        /\ \A i \in 1..(n - 1) :
             sent[i].status = "ok" /\ sent[i].req.json = scale_specs[i]

C3_Witness ==
    /\ pc = "raised"
    /\ Len(sent) = 2
    /\ Len(scale_specs) = 3
    /\ sent[2].status = "http_error"

\* C5: an execution that printed a usage error or a validation error, or
\* exited with status 1, has sent no POST request.
C5_NoNetworkBeforeValidation ==
    (stderr # <<>> \/ pc = "exit1") => Len(sent) = 0

C5_Witness ==
    /\ pc = "exit1"
    /\ stderr = <<"validation">>
    /\ Len(cli.flags) = 2
    /\ Len(sent) = 0

\* C9: every POST carries dry_run as a query parameter with the value of
\* --dry-run and the body the same command line sends without --dry-run; a
\* run that returns returns one result per compiled request, the i-th being
\* the response to the i-th request.
C9_DryRun ==
    /\ \A i \in 1..Len(sent) :
         /\ sent[i].req.params = [dry_run |-> cli.dry_run]
         /\ sent[i].req.json = compile_specs([args EXCEPT !.dry_run = FALSE])[i]
         /\ sent[i].req.url = [region |-> ResolvedIdentity.region,
                               pool |-> ResolvedIdentity.pool]
    /\ pc = "returned" =>
         /\ Len(result) = Len(scale_specs)
         /\ Len(sent) = Len(scale_specs)
         /\ \A i \in 1..Len(result) :
              result[i] = [status |-> "ok", request |-> i]

C9_Witness ==
    /\ pc = "returned"
    /\ cli.dry_run = TRUE
    /\ Len(result) = 3
    /\ sent[3].req.params.dry_run = TRUE

------------------------------------------------------------------------------
(* Properties of Scale.reprocess_args                                      *)

UsageError == Started /\ Len(stderr) > 0 /\ stderr[1] = "usage"

NameStored ==
    cfgfile.exists /\ cfgfile.valid /\ cli.name \in DOMAIN cfgfile.config

FlagsPresent == {f \in Fields : cli[f] # None}

FlagsNonEmpty == {f \in Fields : cli[f] # None /\ cli[f] # ""}

C6_IdentityPopulated ==
    (Started /\ ~UsageError) =>
      /\ \A f \in Fields : args[f] # None /\ args[f] # ""
      /\ \A i \in 1..Len(sent), f \in Fields :
           sent[i].req.json[f] # None /\ sent[i].req.json[f] # ""

------------------------------------------------------------------------------
(* Properties of Scale.type_scalespecs                                     *)

Accepted == parsed # NotParsed /\ parsed.error = ""

Rejected == parsed # NotParsed /\ parsed.error = "TypeError"

AsciiDigits == {"0", "1", "2", "3", "4", "5", "6", "7", "8", "9"}

\* t is <digits>:<digits>
DigitsColonDigits(t) ==
    \E k \in 2..(Len(t) - 1) :
       /\ t[k] = ":"
       /\ \A i \in 1..Len(t) : i # k => t[i] \in AsciiDigits

WithoutNewline(t) ==
    IF Len(t) >= 1 /\ t[Len(t)] = "\n" THEN SubSeq(t, 1, Len(t) - 1) ELSE t

\* C7 as stated: an accepted token has a positive node count and a positive
\* duration and contributes at least one request; a token that is not
\* <digits>:<digits> is rejected.
C7_Original ==
    /\ Accepted => /\ int(parsed.nodes) >= 1
                   /\ int(parsed.time) >= 1
                   /\ Len(parsed.requests) >= 1
    /\ (parsed # NotParsed /\ ~DigitsColonDigits(parsed.tok)) => Rejected

\* C7 amended: an accepted token is <digits>:<digits>, possibly followed by one
\* newline; its node count and duration are the decimal values of the two
\* digit runs, integers >= 0, and it contributes exactly node-count requests
\* (none for a count of zero); every other token is rejected.
C7_TokenGrammar ==
    parsed # NotParsed =>
      /\ Accepted <=> (\/ DigitsColonDigits(parsed.tok)
                       \/ DigitsColonDigits(WithoutNewline(parsed.tok)))
      /\ Accepted \/ Rejected
      /\ Accepted =>
           /\ parsed.nodes \o <<":">> \o parsed.time = WithoutNewline(parsed.tok)
           /\ int(parsed.nodes) >= 0
           /\ int(parsed.time) >= 0
           /\ Len(parsed.requests) = int(parsed.nodes)
           /\ \A i \in 1..Len(parsed.requests) :
                parsed.requests[i].seconds = int(parsed.time)
           /\ (parsed.nodes = <<"1", "2">> => Len(parsed.requests) = 12)
           /\ (parsed.nodes = <<"0", "2">> => Len(parsed.requests) = 2)
           /\ (parsed.time = <<"2", "1">> => int(parsed.time) = 21)

C7_Witness ==
    /\ Accepted
    /\ parsed.tok = <<"0", ":", "2">>
    /\ Len(parsed.requests) = 0

------------------------------------------------------------------------------
(* Properties of the profile store                                         *)

Cur == hist[Len(hist)]

Prev == hist[Len(hist) - 1]

GetAfter(cmd) ==
    /\ Len(hist) = 2
    /\ Prev.cmd = cmd
    /\ Cur.cmd = "get"
    /\ Cur.name = Prev.name

FullRow(name, ident) ==
    [name |-> name, region |-> ident.region, pool |-> ident.pool,
     master |-> ident.master, token |-> ident.token]

RedactedRow(name, ident) ==
    [name |-> name, region |-> ident.region, pool |-> ident.pool,
     master |-> ident.master]

DelNoOp ==
    (Len(hist) >= 1 /\ Cur.cmd = "del"
       /\ (~Cur.before.exists \/ Cur.name \notin DOMAIN Cur.before.config))
      => cfgfile = Cur.before

DelKeepsOthers ==
    (Len(hist) >= 1 /\ Cur.cmd = "del" /\ Cur.before.exists) =>
      /\ DOMAIN cfgfile.config = DOMAIN Cur.before.config \ {Cur.name}
      /\ \A n \in DOMAIN cfgfile.config : cfgfile.config[n] = Cur.before.config[n]

\* C8 as stated: get after set returns all four fields of the identity set;
\* get after delete yields not-found; delete of an absent name, or without a
\* store, changes nothing.
C8_Original ==
    /\ GetAfter("set") =>
         Cur.exit = 0 /\ Cur.rows = {FullRow(Prev.name, Prev.ident)}
    /\ GetAfter("del") => Cur.exit = 1
    /\ DelNoOp

\* C8 amended: get after set returns the identity set, with its token only
\* when get is run with --token; get after delete yields not-found when the
\* store file exists and the empty result when it does not; delete of an
\* absent name, or without a store, changes nothing, and delete leaves every
\* other entry unchanged.
C8_RoundTrip ==
    /\ GetAfter("set") =>
         /\ Cur.exit = 0
         /\ Cur.rows = {IF Cur.token THEN FullRow(Prev.name, Prev.ident)
                        ELSE RedactedRow(Prev.name, Prev.ident)}
    /\ GetAfter("del") =>
         IF Cur.before.exists
         THEN Cur.exit = 1
         ELSE Cur.exit = 0 /\ Cur.rows = {}
    /\ DelNoOp
    /\ DelKeepsOthers

C8_Witness ==
    /\ GetAfter("set")
    /\ Cur.token = TRUE
    /\ DOMAIN Cur.before.config = Names
    /\ Cur.rows = {FullRow(Prev.name, Prev.ident)}
    /\ Prev.before.exists
    /\ Prev.name \in DOMAIN Prev.before.config
    /\ Prev.before.config[Prev.name] # Prev.ident

------------------------------------------------------------------------------
(* Properties of concurrent store mutations                                *)

DoneSet(p) == procs[p].pc = "done" /\ procs[p].cmd = "set"

BothSet(p, q) ==
    /\ p # q
    /\ DoneSet(p)
    /\ DoneSet(q)
    /\ procs[p].name # procs[q].name

HasEntry(p) ==
    /\ cfgfile.exists
    /\ cfgfile.valid
    /\ procs[p].name \in DOMAIN cfgfile.config
    /\ cfgfile.config[procs[p].name] = ConcIdent(p)

\* C10: two set-config invocations with distinct names that ran one after the
\* other leave both entries in the store; equivalently, an entry of one of
\* two finished invocations is missing only when the two overlapped.
C10_SequentialKeepsBoth ==
    \A p, q \in Procs :
      (BothSet(p, q) /\ q \in procs[p].after) => HasEntry(p) /\ HasEntry(q)

\* Both invocations read before either wrote, both reported success, and the
\* store holds only one of the two entries.
C10_Witness ==
    \E p, q \in Procs :
      /\ BothSet(p, q)
      /\ procs[p].after = {}
      /\ procs[q].after = {}
      /\ HasEntry(p)
      /\ ~HasEntry(q)
      /\ DOMAIN cfgfile.config = {procs[p].name}

====
